---- MODULE Spec2Model ----
(***************************************************************************)
(* Credential service of the acquisitions API (src/src/config/arcject.js,  *)
(* lines 25-112): hashedPassword, comparePassword, createUser and          *)
(* authenticateUser over the users table (src/unnamed/part_000, 236-244).  *)
(*                                                                         *)
(* A JavaScript string is a sequence of tokens (each token a TLA+ string), *)
(* so a template literal is a concatenation and "the text contains the     *)
(* password" is a sub-sequence test.  Every await of the source is one     *)
(* step: concurrent calls interleave at their awaits and nowhere else.     *)
(***************************************************************************)
EXTENDS Naturals, Sequences, FiniteSets

\* Number of service calls (createUser / authenticateUser) in one behaviour.
MaxCalls == 2

VARIABLES
    users,      \* rows of the "users" table
    nextId,     \* the serial sequence behind users.id
    clock,      \* the store's now(), read by each insert
    log,        \* entries written through logger.info / logger.error
    calls       \* the calls made so far, each with its locals and its outcome

vars == <<users, nextId, clock, log, calls>>

----------------------------------------------------------------------------
(* Input values *)

Names == {<<"John">>}
EmailInputs == {<<"f", "@", "b">>, <<"F", "@", "B", " ">>, <<"g", "@", "b">>}
Passwords == {<<"p">>, <<"q">>}
\* "absent": the caller passes no role, the default parameter applies.
RoleInputs == {"absent", "admin"}
\* The salts bcrypt may draw.
Salts == {"s1"}

----------------------------------------------------------------------------
(* Strings *)

\* s occurs in t as a contiguous run of tokens (String.prototype.includes).
Includes(t, s) ==
    \E i \in 1..(Len(t) + 1 - Len(s)) : SubSeq(t, i, i + Len(s) - 1) = s

\* String.prototype.toLowerCase on one character.
LowerChar(c) ==
    CASE c = "F" -> "f"
      [] c = "B" -> "b"
      [] c = "G" -> "g"
      [] OTHER -> c

ToLower(s) == [i \in 1..Len(s) |-> LowerChar(s[i])]

RECURSIVE TrimStart(_)
TrimStart(s) ==
    IF s # <<>> /\ Head(s) = " " THEN TrimStart(Tail(s)) ELSE s

RECURSIVE TrimEnd(_)
TrimEnd(s) ==
    IF s # <<>> /\ s[Len(s)] = " " THEN TrimEnd(SubSeq(s, 1, Len(s) - 1)) ELSE s

Trim(s) == TrimEnd(TrimStart(s))

\* The email the validation schema hands on: trimmed, lowercased.
Normalize(e) == ToLower(Trim(e))

----------------------------------------------------------------------------
(* Errors *)

\* An error object: who constructed it, its name and its message.
MkError(origin, name, message) ==
    [origin |-> origin, name |-> name, message |-> message]

\* new Error(message) in the service.
NewError(message) == MkError("service", "Error", message)

\* String(err), as in `${err}` and in new Error(err).
ErrToString(e) == <<e.name, ": ">> \o e.message

\* The store's errors: the query could not be run, or the insert broke the
\* unique constraint on users.email.  Their text names the failure and the
\* constraint; it does not repeat the values of the statement.
StoreUnavailable == MkError("store", "NeonDbError", <<"connection failed">>)
UniqueViolation ==
    MkError("store", "NeonDbError",
            <<"duplicate key value violates unique constraint ",
              "users_email_unique">>)

\* bcrypt's own error.
BcryptError == MkError("bcrypt", "Error", <<"bcrypt internal error">>)

----------------------------------------------------------------------------
(* bcrypt *)

\* The digest of one character of the plaintext.
DigestChar(c) ==
    CASE c = "p" -> "P"
      [] c = "q" -> "Q"
      [] OTHER -> "X"

\* bcrypt.hash(password, 10) with the salt bcrypt drew.
BcryptHash(password, salt) ==
    <<"$2b$10$", salt>> \o [i \in 1..Len(password) |-> DigestChar(password[i])]

\* A plain string comparison of the password with the stored value.
BcryptCompareNaive(password, hash) == password = hash

\* The two arguments of bcrypt.compare in the wrong order.
BcryptCompareSwapped(password, hash) ==
    /\ Len(password) >= 2
    /\ BcryptHash(hash, password[2]) = password

\* bcrypt.compare(password, hash): hash again with the salt in the hash.
BcryptCompare(password, hash) ==
    /\ Len(hash) >= 2
    /\ BcryptHash(password, hash[2]) = hash

----------------------------------------------------------------------------
(* The store: the users table *)

\* A users table whose email column carries no unique constraint.
EmailIsFreeUnconstrained(email) == TRUE

\* unique constraint on users.email: no row holds this email yet.
EmailIsFree(email) == \A u \in users : u.email # email

\* The lookup without its where clause: select().from(users).limit(1)
SelectAnyRow(email) ==
    IF users = {} THEN {<<>>} ELSE {<<u>> : u \in users}

\* select().from(users).where(eq(users.email, email)).limit(1): the possible
\* result arrays.
SelectByEmail(email) ==
    LET rows == {u \in users : u.email = email}
    IN  IF rows = {} THEN {<<>>} ELSE {<<u>> : u \in rows}

\* The row the store builds for insert(users).values(v): serial id, now().
StoredRow(v) ==
    [id |-> nextId, name |-> v.name, email |-> v.email, password |-> v.password,
     role |-> v.role, created_at |-> clock, updated_at |-> clock]

\* .returning() with no column list: every column of the row.
ReturningAllColumns(row) == row

\* .returning({id, name, email, role, created_at})
Returning(row) ==
    [id |-> row.id, name |-> row.name, email |-> row.email, role |-> row.role,
     created_at |-> row.created_at]

----------------------------------------------------------------------------
(* The service *)

\* role = 'admin' as the default in createUser's parameter list.
DefaultRoleAdmin(role) == IF role = "absent" THEN "admin" ELSE role

\* role = 'user' in createUser's parameter list.
DefaultRole(role) == IF role = "absent" THEN "user" ELSE role

\* createUser trimming and lowercasing the email before lookup and storage.
CreateEmailKeyNormalized(email) == Normalize(email)

\* The value createUser looks up and stores: the email as it was passed.
CreateEmailKey(email) == email

\* The value authenticateUser looks up: the email as it was passed.
AuthEmailKey(email) == email

\* existingUser.length > 1
UserExistsOffByOne(existingUser) == Len(existingUser) > 1

\* existingUser.length > 0
UserExists(existingUser) == Len(existingUser) > 0

AlreadyExistsError == NewError(<<"User with this email already exists">>)
\* An error that carries what bcrypt threw: new Error(`Error hashing the password ${e}`)
HashingErrorWithCause ==
    NewError(<<"Error hashing the password ">> \o ErrToString(BcryptError))

HashingError == NewError(<<"Error hashing the password">>)
ComparingError == NewError(<<"Error comparing passwords">>)
\* thrown when the lookup finds no user
NoSuchUserError == NewError(<<"Invalid email or password">>)
\* A message of its own for the password that does not verify.
WrongPasswordErrorTelling == NewError(<<"Invalid password">>)

\* thrown when the password does not verify
WrongPasswordError == NewError(<<"Invalid email or password">>)

LogEntry(level, message) == [level |-> level, message |-> message]

\* logger.error(`Error hashing the password ${e}`)
HashingLog(e) == LogEntry("error", <<"Error hashing the password ">> \o ErrToString(e))

\* logger.error(`Error comparing passwords: ${e}`)
ComparingLog(e) == LogEntry("error", <<"Error comparing passwords: ">> \o ErrToString(e))

\* logger.info(`User ${newUser.email} created successfully.`)
CreatedLog(newUser) ==
    LogEntry("info", <<"User ">> \o newUser.email \o <<" created successfully.">>)

\* logger.info(`User ${user.email} authenticated successfully.`)
AuthenticatedLog(user) ==
    LogEntry("info", <<"User ">> \o user.email \o <<" authenticated successfully.">>)

\* createUser's catch: logger.error(`Error creating user: ${err}`)
CreateCatchLog(err) == LogEntry("error", <<"Error creating user: ">> \o ErrToString(err))

\* A catch that reports every failure as the duplicate rejection.
CreateCatchThrowAlwaysDuplicate(err) ==
    NewError(<<"Error", ": ", "User with this email already exists">>)

\* A catch that rethrows what it caught: throw err
CreateCatchThrowRaw(err) == err

\* createUser's catch: throw new Error(err)
CreateCatchThrow(err) == NewError(ErrToString(err))

\* authenticateUser's catch: logger.error(`Error authenticating user: ${err.message}`)
AuthCatchLog(err) == LogEntry("error", <<"Error authenticating user: ">> \o err.message)

\* authenticateUser's catch: throw err
AuthCatchThrow(err) == err

\* authenticateUser returning the selected row: return user
AuthResultWholeRow(user) == user

\* The object authenticateUser returns.
AuthResult(user) ==
    [id |-> user.id, name |-> user.name, email |-> user.email, role |-> user.role,
     created_at |-> user.created_at]

----------------------------------------------------------------------------
(* Calls *)

\* A call's record: its arguments, where it is (pc), its locals
\* (password_hash, user), what its caller got (outcome, value, error), and
\* history kept for the properties: the branch taken (path), how often it
\* called hashedPassword and inserted, the role argument as the caller
\* passed it, and the emails and the rows stored when it began.
NewCall(op, name, email, password, roleArg) ==
    [op |-> op, name |-> name, email |-> email, password |-> password,
     roleArg |-> roleArg, role |-> DefaultRole(roleArg), pc |-> "select", password_hash |-> <<>>, user |-> <<>>,
     outcome |-> "pending", value |-> <<>>, error |-> <<>>, path |-> "",
     inserts |-> 0, hashes |-> 0,
     emailsAtBegin |-> {u.email : u \in users}, rowsAtBegin |-> users]

\* The call ends by throwing err to its caller.
Throw(c, path, err) ==
    [c EXCEPT !.pc = "done", !.outcome = "throw", !.error = <<err>>, !.path = path]

\* The call ends by returning v to its caller.
Return(c, path, v) ==
    [c EXCEPT !.pc = "done", !.outcome = "return", !.value = <<v>>, !.path = path]

Init ==
    /\ users = {}
    /\ nextId = 1
    /\ clock = 100
    /\ log = {}
    /\ calls = <<>>

\* A caller invokes createUser({name, email, password, role}).
BeginCreate(name, email, password, role) ==
    /\ Len(calls) < MaxCalls
    /\ calls' = Append(calls, NewCall("createUser", name, email, password, role))
    /\ UNCHANGED <<users, nextId, clock, log>>

\* A caller invokes authenticateUser({email, password}).
BeginAuth(email, password) ==
    /\ Len(calls) < MaxCalls
    /\ calls' = Append(calls, NewCall("authenticateUser", <<>>, email, password, ""))
    /\ UNCHANGED <<users, nextId, clock, log>>

\* createUser, first await: the lookup, then the duplicate check and the
\* call of hashedPassword.
CreateSelect(i) ==
    LET c == calls[i] IN
    /\ c.op = "createUser" /\ c.pc = "select"
    /\ \/ /\ log' = log \cup {CreateCatchLog(StoreUnavailable)}
          /\ calls' = [calls EXCEPT ![i] =
                 Throw(c, "selectfail", CreateCatchThrow(StoreUnavailable))]
       \/ \E existingUser \in SelectByEmail(CreateEmailKey(c.email)) :
            IF UserExists(existingUser)
            THEN /\ log' = log \cup {CreateCatchLog(AlreadyExistsError)}
                 /\ calls' = [calls EXCEPT ![i] =
                        Throw(c, "duplicate", CreateCatchThrow(AlreadyExistsError))]
            ELSE /\ log' = log
                 /\ calls' = [calls EXCEPT ![i].pc = "hash",
                                           ![i].hashes = c.hashes + 1]
    /\ UNCHANGED <<users, nextId, clock>>

\* createUser, second await: hashedPassword settles, then the insert is sent.
CreateHash(i) ==
    LET c == calls[i] IN
    /\ c.op = "createUser" /\ c.pc = "hash"
    /\ \/ /\ log' = log \cup {HashingLog(BcryptError), CreateCatchLog(HashingError)}
          /\ calls' = [calls EXCEPT ![i] =
                 Throw(c, "hashfail", CreateCatchThrow(HashingError))]
       \/ \E salt \in Salts :
            /\ log' = log
            /\ calls' = [calls EXCEPT ![i].pc = "insert",
                             ![i].password_hash = BcryptHash(c.password, salt)]
    /\ UNCHANGED <<users, nextId, clock>>

\* createUser, third await: the store runs the insert.
CreateInsert(i) ==
    LET c == calls[i]
        v == [name |-> c.name, email |-> CreateEmailKey(c.email),
              password |-> c.password_hash, role |-> c.role]
        row == StoredRow(v)
        newUser == Returning(row)
    IN
    /\ c.op = "createUser" /\ c.pc = "insert"
    /\ \/ /\ log' = log \cup {CreateCatchLog(StoreUnavailable)}
          /\ calls' = [calls EXCEPT ![i] =
                 Throw(c, "insertfail", CreateCatchThrow(StoreUnavailable))]
          /\ UNCHANGED <<users, nextId, clock>>
       \/ /\ ~EmailIsFree(v.email)
          /\ log' = log \cup {CreateCatchLog(UniqueViolation)}
          /\ calls' = [calls EXCEPT ![i] =
                 Throw(c, "insertconflict", CreateCatchThrow(UniqueViolation))]
          /\ UNCHANGED <<users, nextId, clock>>
       \/ /\ EmailIsFree(v.email)
          /\ users' = users \cup {row}
          /\ nextId' = nextId + 1
          /\ clock' = clock + 1
          /\ log' = log \cup {CreatedLog(newUser)}
          /\ calls' = [calls EXCEPT ![i] =
                 [Return(c, "created", newUser) EXCEPT !.inserts = c.inserts + 1]]

\* authenticateUser, first await: the lookup, then comparePassword is called.
AuthSelect(i) ==
    LET c == calls[i] IN
    /\ c.op = "authenticateUser" /\ c.pc = "select"
    /\ \/ /\ log' = log \cup {AuthCatchLog(StoreUnavailable)}
          /\ calls' = [calls EXCEPT ![i] =
                 Throw(c, "selectfail", AuthCatchThrow(StoreUnavailable))]
       \/ \E found \in SelectByEmail(AuthEmailKey(c.email)) :
            IF found = <<>>
            THEN /\ log' = log \cup {AuthCatchLog(NoSuchUserError)}
                 /\ calls' = [calls EXCEPT ![i] =
                        Throw(c, "nouser", AuthCatchThrow(NoSuchUserError))]
            ELSE /\ log' = log
                 /\ calls' = [calls EXCEPT ![i].pc = "compare", ![i].user = found]
    /\ UNCHANGED <<users, nextId, clock>>

\* authenticateUser that stamps the row on a successful sign-in:
\* update(users).set({updated_at: now()}) before returning.
AuthCompareStampingRow(i) ==
    LET c == calls[i]
        user == c.user[1]
    IN
    /\ c.op = "authenticateUser" /\ c.pc = "compare"
    /\ \/ /\ ~BcryptCompare(c.password, user.password)
          /\ log' = log \cup {AuthCatchLog(WrongPasswordError)}
          /\ calls' = [calls EXCEPT ![i] =
                 Throw(c, "wrongpassword", AuthCatchThrow(WrongPasswordError))]
          /\ users' = users
       \/ /\ BcryptCompare(c.password, user.password)
          /\ log' = log \cup {AuthenticatedLog(user)}
          /\ calls' = [calls EXCEPT ![i] = Return(c, "authenticated", AuthResult(user))]
          /\ users' = (users \ {user}) \cup {[user EXCEPT !.updated_at = clock]}
    /\ UNCHANGED <<nextId, clock>>

\* authenticateUser, second await: comparePassword settles.
AuthCompare(i) ==
    LET c == calls[i]
        user == c.user[1]
    IN
    /\ c.op = "authenticateUser" /\ c.pc = "compare"
    /\ \/ /\ log' = log \cup {ComparingLog(BcryptError), AuthCatchLog(ComparingError)}
          /\ calls' = [calls EXCEPT ![i] =
                 Throw(c, "comparefail", AuthCatchThrow(ComparingError))]
       \/ /\ ~BcryptCompare(c.password, user.password)
          /\ log' = log \cup {AuthCatchLog(WrongPasswordError)}
          /\ calls' = [calls EXCEPT ![i] =
                 Throw(c, "wrongpassword", AuthCatchThrow(WrongPasswordError))]
       \/ /\ BcryptCompare(c.password, user.password)
          /\ log' = log \cup {AuthenticatedLog(user)}
          /\ calls' = [calls EXCEPT ![i] = Return(c, "authenticated", AuthResult(user))]
    /\ UNCHANGED <<users, nextId, clock>>

Next ==
    \/ \E name \in Names, email \in EmailInputs, password \in Passwords,
          role \in RoleInputs : BeginCreate(name, email, password, role)
    \/ \E email \in EmailInputs, password \in Passwords : BeginAuth(email, password)
    \/ \E i \in 1..Len(calls) : CreateSelect(i)
    \/ \E i \in 1..Len(calls) : CreateHash(i)
    \/ \E i \in 1..Len(calls) : CreateInsert(i)
    \/ \E i \in 1..Len(calls) : AuthSelect(i)
    \/ \E i \in 1..Len(calls) : AuthCompare(i)

Spec == Init /\ [][Next]_vars

\* The store as an earlier run of the service left it: one account, created
\* by createUser({name: "John", email: "f@b", password: "p"}).
InitSeeded ==
    /\ users = {[id |-> 1, name |-> <<"John">>, email |-> <<"f", "@", "b">>,
                 password |-> BcryptHash(<<"p">>, "s1"), role |-> "user",
                 created_at |-> 100, updated_at |-> 100]}
    /\ nextId = 2
    /\ clock = 101
    /\ log = {}
    /\ calls = <<>>

SpecSeeded == InitSeeded /\ [][Next]_vars

----------------------------------------------------------------------------
(* Vocabulary of the properties *)

CallIds == 1..Len(calls)
Creates == {i \in CallIds : calls[i].op = "createUser"}
Auths == {i \in CallIds : calls[i].op = "authenticateUser"}
Returned(i) == calls[i].outcome = "return"
Threw(i) == calls[i].outcome = "throw"

\* The paths on which a collaborator (the store, bcrypt) failed for a reason
\* of its own.
FaultPaths == {"selectfail", "hashfail", "insertfail", "comparefail"}

\* The error kind a caller reads off a thrown value.  A value this layer did
\* not construct is the collaborator's raw error; an Error of this layer
\* whose message is the text of a store error is a ProvisioningFailure.
Kind(e) ==
    IF e.origin # "service" THEN "RawError"
    ELSE IF e.message = <<"Error", ": ", "User with this email already exists">>
         THEN "DuplicateAccount"
    ELSE IF e.message = <<"Invalid email or password">>
         THEN "InvalidCredentials"
    ELSE IF e.message \in {<<"Error", ": ", "Error hashing the password">>,
                           <<"Error comparing passwords">>}
         THEN "HashingFailure"
    ELSE IF \E x \in {StoreUnavailable, UniqueViolation} : e.message = ErrToString(x)
         THEN "ProvisioningFailure"
    ELSE "Unknown"

PublicFields == {"id", "name", "email", "role", "created_at"}

----------------------------------------------------------------------------
(* C1 *)

\* C1: under every interleaving of concurrent createUser calls, the store
\* holds at most one row per email, and among the createUser calls that
\* passed the same email at most one has returned a user.
C1_OneAccountPerEmail ==
    /\ \A u1, u2 \in users : u1.email = u2.email => u1 = u2
    /\ \A i, j \in Creates :
         (i # j /\ calls[i].email = calls[j].email) => ~(Returned(i) /\ Returned(j))

\* Two createUser calls with one email both passed the duplicate check; the
\* store let one insert through and rejected the other.
C1_Witness ==
    \E i, j \in Creates :
        /\ i # j
        /\ calls[i].email = calls[j].email
        /\ calls[i].path = "created"
        /\ calls[j].path = "insertconflict"
        /\ calls[j].hashes = 1

----------------------------------------------------------------------------
(* C2 *)

\* C2 as stated: a createUser call whose insert the unique constraint
\* rejected (its own lookup had found nothing) ends with the same
\* DuplicateAccount outcome as a rejection by the lookup.
C2_ConflictReportedAsDuplicate ==
    \A i \in Creates :
        calls[i].path = "insertconflict" =>
            /\ Threw(i)
            /\ Kind(calls[i].error[1]) = "DuplicateAccount"

\* C2, amended: a rejection by the lookup ends with DuplicateAccount; a
\* rejection of the insert by the unique constraint ends with the wrapped
\* store error (ProvisioningFailure), an outcome that differs from the
\* DuplicateAccount one.
C2_ConflictIsProvisioningFailure ==
    \A i \in Creates :
        /\ calls[i].path = "duplicate" =>
              /\ Threw(i)
              /\ Kind(calls[i].error[1]) = "DuplicateAccount"
        /\ calls[i].path = "insertconflict" =>
              /\ Threw(i)
              /\ Kind(calls[i].error[1]) = "ProvisioningFailure"
              /\ calls[i].error[1].message = ErrToString(UniqueViolation)
              /\ calls[i].error # <<NewError(ErrToString(AlreadyExistsError))>>

\* A createUser call began with no row for its email, passed the lookup,
\* hashed, and had its insert rejected by the unique constraint.
C2_Witness ==
    \E i \in Creates :
        /\ calls[i].path = "insertconflict"
        /\ calls[i].email \notin calls[i].emailsAtBegin
        /\ calls[i].password_hash # <<>>
        /\ \E u \in users : u.email = calls[i].email

----------------------------------------------------------------------------
(* C3 *)

----------------------------------------------------------------------------
(* C4 *)

C4_Counts ==
    /\ Cardinality(users) = Cardinality({i \in Creates : Returned(i)})
    /\ \A i \in Creates :
         /\ Returned(i) => calls[i].inserts = 1
         /\ calls[i].path = "duplicate" =>
               /\ calls[i].inserts = 0
               /\ calls[i].hashes = 0
               /\ calls[i].password_hash = <<>>
         /\ calls[i].email \in calls[i].emailsAtBegin =>
               /\ calls[i].inserts = 0
               /\ calls[i].hashes = 0
               /\ calls[i].password_hash = <<>>

C4_Step ==
    \A i \in 1..Len(calls) :
        (calls[i].pc # "done" /\ calls'[i].pc = "done") =>
            /\ calls'[i].path = "duplicate" => users' = users
            /\ (calls'[i].op = "createUser" /\ calls'[i].outcome = "return") =>
                  /\ users \subseteq users'
                  /\ Cardinality(users') = Cardinality(users) + 1

\* C4: a createUser call that returns has made exactly one insert (the step
\* that returns adds exactly one row, and the table holds as many rows as
\* calls have returned); a createUser call whose lookup finds a row makes no
\* insert and does not call the hash, and the step that rejects it leaves
\* the table as it was.
C4_OneInsertPerSuccess == []C4_Counts /\ [][C4_Step]_vars

\* One call inserted and returned; another, begun with the row in place, was
\* rejected as a duplicate without hashing.
C4_Witness ==
    \E i, j \in Creates :
        /\ calls[i].path = "created" /\ calls[i].inserts = 1
        /\ calls[j].path = "duplicate" /\ calls[j].hashes = 0
        /\ Cardinality(users) = 1

----------------------------------------------------------------------------
(* C5 *)

\* C5: authenticateUser ends with one and the same error, of kind
\* InvalidCredentials, when the lookup finds no user and when the password
\* does not verify: the two thrown values are equal.
C5_SameErrorOnBothRejections ==
    /\ \A i \in Auths :
         calls[i].path \in {"nouser", "wrongpassword"} =>
            /\ Threw(i)
            /\ calls[i].value = <<>>
            /\ Kind(calls[i].error[1]) = "InvalidCredentials"
    /\ \A i, j \in Auths :
         (calls[i].path = "nouser" /\ calls[j].path = "wrongpassword") =>
            calls[i].error = calls[j].error

\* One authenticateUser call was rejected for an unknown email, another for
\* a wrong password on a stored email.
C5_Witness ==
    \E i, j \in Auths :
        /\ calls[i].path = "nouser"
        /\ \A u \in users : u.email # calls[i].email
        /\ calls[j].path = "wrongpassword"
        /\ \E u \in users :
              u.email = calls[j].email /\ ~BcryptCompare(calls[j].password, u.password)

----------------------------------------------------------------------------
(* C6 *)

\* C6: when createUser(name, email, password, role) has returned, a later
\* authenticateUser(email, password) with the same email and password,
\* during which neither the store nor bcrypt fails, returns a record whose
\* id, name, email, role and created_at are those of the stored row (and of
\* the record createUser returned) and that has no other field.
C6_AuthenticateReturnsStoredIdentity ==
    \A j \in Auths :
        \A i \in Creates :
            ( /\ Returned(i)
              /\ calls[i].email = calls[j].email
              /\ calls[i].password = calls[j].password
              /\ calls[j].email \in calls[j].emailsAtBegin
              /\ calls[j].pc = "done"
              /\ calls[j].path \notin FaultPaths )
            => /\ Returned(j)
               /\ DOMAIN calls[j].value[1] = PublicFields
               /\ calls[j].value = calls[i].value
               /\ \E u \in users :
                     /\ u.email = calls[j].email
                     /\ u.name = calls[i].name
                     /\ u.role = calls[i].role
                     /\ calls[j].value[1] =
                           [id |-> u.id, name |-> u.name, email |-> u.email,
                            role |-> u.role, created_at |-> u.created_at]

\* An admin account was created and then authenticated with its password.
C6_Witness ==
    \E i \in Creates, j \in Auths :
        /\ Returned(i)
        /\ calls[i].role = "admin"
        /\ calls[j].email = calls[i].email
        /\ calls[j].password = calls[i].password
        /\ calls[j].email \in calls[j].emailsAtBegin
        /\ calls[j].path = "authenticated"

----------------------------------------------------------------------------
(* C7 *)

----------------------------------------------------------------------------
(* C8 *)

FourKinds ==
    {"HashingFailure", "DuplicateAccount", "InvalidCredentials", "ProvisioningFailure"}

\* C8 as stated: every value createUser or authenticateUser throws is of one
\* of the four kinds and was constructed by this layer (never the store's or
\* bcrypt's own error object), and authenticateUser throws nothing but
\* InvalidCredentials.
C8_OnlyTranslatedErrors ==
    \A i \in CallIds :
        Threw(i) =>
            /\ calls[i].error[1].origin = "service"
            /\ Kind(calls[i].error[1]) \in FourKinds
            /\ i \in Auths => Kind(calls[i].error[1]) = "InvalidCredentials"

----------------------------------------------------------------------------
(* C9 *)

\* C9: when the insert of createUser fails, by a store failure or by the
\* unique constraint in the race between lookup and insert, the caller gets
\* an Error constructed by this layer that wraps the store error's text
\* (ProvisioningFailure), which is not the DuplicateAccount error and not
\* the store's own error object.
C9_InsertErrorsAreProvisioningFailures ==
    \A i \in Creates :
        calls[i].path \in {"insertfail", "insertconflict"} =>
            /\ Threw(i)
            /\ calls[i].error[1].origin = "service"
            /\ calls[i].error[1].name = "Error"
            /\ Kind(calls[i].error[1]) = "ProvisioningFailure"
            /\ calls[i].error[1] \notin {StoreUnavailable, UniqueViolation}

\* Two createUser calls with one email got as far as the insert; the second
\* insert broke the unique constraint and its caller got the wrapped error.
C9_Witness ==
    \E i, j \in Creates :
        /\ calls[i].path = "created"
        /\ calls[j].path = "insertconflict"
        /\ calls[j].email = calls[i].email
        /\ calls[j].error = <<NewError(ErrToString(UniqueViolation))>>
        /\ CreateCatchLog(UniqueViolation) \in log

----------------------------------------------------------------------------
(* C10 *)

\* The plaintext passwords passed in and the hashes computed or stored.
Secrets ==
    {calls[i].password : i \in CallIds}
        \cup {calls[i].password_hash : i \in {k \in CallIds : calls[k].password_hash # <<>>}}
        \cup {u.password : u \in users}

Leaks(text) == \E x \in Secrets : Includes(text, x)

----------------------------------------------------------------------------
(* C11 *)

\* C11: a createUser call made without a role stores and returns role
\* "user", one made with role "admin" stores and returns that
\* role, and every row of the table has role "admin" or "user".
C11_RoleDefaultsToUser ==
    /\ \A i \in Creates :
         Returned(i) =>
            /\ calls[i].roleArg = "absent" => calls[i].value[1].role = "user"
            /\ calls[i].roleArg # "absent" => calls[i].value[1].role = calls[i].roleArg
            /\ \E u \in users :
                  /\ u.id = calls[i].value[1].id
                  /\ u.role = calls[i].value[1].role
    /\ \A u \in users : u.role \in {"admin", "user"}

\* One account was created without a role and holds "user", another was
\* created as "admin" and holds "admin".
C11_Witness ==
    \E i, j \in Creates :
        /\ Returned(i) /\ calls[i].roleArg = "absent"
        /\ Returned(j) /\ calls[j].roleArg = "admin"
        /\ \E u, w \in users :
              /\ u.email = calls[i].email /\ u.role = "user"
              /\ w.email = calls[j].email /\ w.role = "admin"

----------------------------------------------------------------------------
(* C12 *)

\* The createUser call that stored the row authenticateUser call j selected.
CreatorOf(j) ==
    {i \in Creates : Returned(i) /\ calls[i].value[1].id = calls[j].user[1].id}

\* C12: the hash hashedPassword produced for a plaintext verifies against
\* that plaintext and against no other; in authenticateUser, comparePassword
\* on the stored hash yields true for the plaintext that was hashed (the
\* call returns the user), yields the value false for any other plaintext
\* (the call is rejected with InvalidCredentials, not with the comparing
\* error), and the comparing error occurs only when bcrypt itself fails.
C12_HashThenVerify ==
    /\ \A i \in Creates :
         calls[i].password_hash # <<>> =>
            \A q \in Passwords :
                BcryptCompare(q, calls[i].password_hash) <=> (q = calls[i].password)
    /\ \A j \in Auths :
         (calls[j].pc = "done" /\ calls[j].user # <<>>) =>
            \A i \in CreatorOf(j) :
                \/ /\ calls[j].path = "comparefail"
                   /\ Kind(calls[j].error[1]) = "HashingFailure"
                \/ /\ calls[j].password = calls[i].password
                   /\ calls[j].path = "authenticated"
                   /\ Returned(j)
                \/ /\ calls[j].password # calls[i].password
                   /\ calls[j].path = "wrongpassword"
                   /\ Kind(calls[j].error[1]) = "InvalidCredentials"
                   /\ calls[j].error # <<ComparingError>>

\* An account was created with one password and authenticateUser was called
\* with another: the comparison gave false and the call was rejected with
\* InvalidCredentials.
C12_Witness ==
    \E j \in Auths :
        /\ calls[j].path = "wrongpassword"
        /\ \E i \in CreatorOf(j) :
              /\ calls[i].password # calls[j].password
              /\ BcryptCompare(calls[i].password, calls[j].user[1].password)
              /\ ~BcryptCompare(calls[j].password, calls[j].user[1].password)

----------------------------------------------------------------------------
(* C13 *)

C13_AfterHashFailure ==
    \A i \in Creates :
        /\ calls[i].path = "hashfail" =>
              /\ Threw(i)
              /\ Kind(calls[i].error[1]) = "HashingFailure"
              /\ calls[i].error[1].message = <<"Error", ": ", "Error hashing the password">>
              /\ ~Includes(calls[i].error[1].message, calls[i].password)
              /\ ~Includes(calls[i].error[1].message, BcryptError.message)
              /\ calls[i].inserts = 0
              /\ calls[i].password_hash = <<>>
        /\ (calls[i].pc = "insert" \/ calls[i].inserts > 0) =>
              /\ calls[i].hashes = 1
              /\ BcryptCompare(calls[i].password, calls[i].password_hash)

C13_Step ==
    /\ \A i \in 1..Len(calls) :
         /\ (calls[i].pc # "hash" /\ calls'[i].pc = "hash") =>
               /\ calls[i].pc = "select"
               /\ \A u \in users : u.email # calls[i].email
         /\ (calls[i].pc # "insert" /\ calls'[i].pc = "insert") =>
               /\ calls[i].pc = "hash"
               /\ BcryptCompare(calls[i].password, calls'[i].password_hash)
         /\ (calls[i].path # "hashfail" /\ calls'[i].path = "hashfail") =>
               /\ calls[i].pc = "hash"
               /\ users' = users
    /\ users' # users =>
         \E i \in 1..Len(calls) : calls[i].pc = "insert" /\ calls'[i].pc = "done"

\* C13: createUser sends its insert only after its lookup found no row and
\* its hash was computed; when hashing fails the caller gets the generic
\* "Error hashing the password" error, which carries neither the plaintext
\* nor bcrypt's error, no insert was sent and the table is unchanged.
C13_InsertOnlyAfterHash == []C13_AfterHashFailure /\ [][C13_Step]_vars

\* A createUser call passed the lookup, bcrypt failed, the failure was
\* logged and the call ended with nothing stored.
C13_Witness ==
    \E i \in Creates :
        /\ calls[i].path = "hashfail"
        /\ calls[i].hashes = 1
        /\ HashingLog(BcryptError) \in log
        /\ \A u \in users : u.email # calls[i].email

----------------------------------------------------------------------------
(* C14 *)

\* The step is taken by authenticateUser: a call of it begins or moves on.
AuthStep ==
    \E i \in 1..Len(calls') :
        /\ calls'[i].op = "authenticateUser"
        /\ (i > Len(calls) \/ calls'[i] # calls[i])

C14_Step ==
    /\ users \subseteq users'
    /\ \A u \in users' \ users : \A w \in users : w.id # u.id
    /\ AuthStep => users' = users

\* C14: rows are only ever added: every step keeps every row of the table
\* with all its fields, a new row takes an id no row has, and every step of
\* authenticateUser, whatever its outcome, leaves the table unchanged.
C14_RowsOnlyAdded == [][C14_Step]_vars

\* An account was created and a later authenticateUser call on it has
\* ended; the row is still the one createUser returned.
C14_Witness ==
    \E i \in Creates, j \in Auths :
        /\ Returned(i)
        /\ calls[j].pc = "done"
        /\ calls[j].path \in {"authenticated", "wrongpassword"}
        /\ calls[j].email = calls[i].email
        /\ \E u \in users :
              /\ Returning(u) = calls[i].value[1]
              /\ u.updated_at = u.created_at

----------------------------------------------------------------------------
(* C15 *)

\* What a caller can tell of a call's outcome: success or the error, and the
\* name, email and role returned.
OutcomeOf(outcome, name, email, role, error) ==
    [outcome |-> outcome, name |-> name, email |-> email, role |-> role,
     error |-> error]

Observed(c) ==
    IF c.outcome = "return"
    THEN OutcomeOf("return", c.value[1].name, c.value[1].email, c.value[1].role, <<>>)
    ELSE OutcomeOf("throw", <<>>, <<>>, "", c.error)

Failure(e) == OutcomeOf("throw", <<>>, <<>>, "", <<e>>)

\* The outcome of call c run alone on the table as it was when c began, the
\* store and bcrypt failing where they failed for c.
AloneOutcome(c) ==
    LET rows == {u \in c.rowsAtBegin : u.email = c.email}
        row == CHOOSE u \in rows : TRUE
    IN
    IF c.op = "createUser"
    THEN IF c.path = "selectfail"
           THEN Failure(NewError(<<"NeonDbError", ": ", "connection failed">>))
         ELSE IF rows # {}
           THEN Failure(NewError(<<"Error", ": ", "User with this email already exists">>))
         ELSE IF c.path = "hashfail"
           THEN Failure(NewError(<<"Error", ": ", "Error hashing the password">>))
         ELSE IF c.path = "insertfail"
           THEN Failure(NewError(<<"NeonDbError", ": ", "connection failed">>))
         ELSE OutcomeOf("return", c.name, c.email,
                        IF c.roleArg = "absent" THEN "user" ELSE c.roleArg, <<>>)
    ELSE IF c.path = "selectfail"
           THEN Failure(StoreUnavailable)
         ELSE IF rows = {}
           THEN Failure(NewError(<<"Invalid email or password">>))
         ELSE IF c.path = "comparefail"
           THEN Failure(NewError(<<"Error comparing passwords">>))
         ELSE IF BcryptCompare(c.password, row.password)
           THEN OutcomeOf("return", row.name, row.email, row.role, <<>>)
         ELSE Failure(NewError(<<"Invalid email or password">>))

\* C15: a createUser or authenticateUser call on an email, interleaved in
\* any way with calls that are all on other emails, ends for its caller as
\* it would have run alone on the table it began with: the same success or
\* the same error, and the same name, email and role.
C15_OtherEmailsDoNotInterfere ==
    \A j \in CallIds :
        ( /\ calls[j].pc = "done"
          /\ \A k \in CallIds \ {j} : calls[k].email # calls[j].email )
        => Observed(calls[j]) = AloneOutcome(calls[j])

\* A createUser call on one email and a call on the stored account's email
\* overlapped: the second began before the first had inserted, both ended,
\* the first with its row stored and the second with the stored account's
\* outcome.
C15_Witness ==
    \E j, k \in CallIds :
        /\ j < k
        /\ calls[j].email # calls[k].email
        /\ calls[j].path = "created"
        /\ \A u \in calls[k].rowsAtBegin : u.email # calls[j].email
        /\ calls[k].path \in {"authenticated", "duplicate"}
        /\ calls[k].rowsAtBegin # users

====
